---- MODULE Spec2Model ----
(***************************************************************************)
(* Model of the two batch jobs of the repository:                          *)
(*   newsletter/generate_newsletter.py  (weekly job, tool-use loop)        *)
(*   coaching/generate_coaching.py      (daily job, single-shot)           *)
(* One run of a job is main(): generation, then get_gmail_service(), then  *)
(* send_email().  The files token.json, client_secret.json and goals.md    *)
(* persist across runs.                                                    *)
(***************************************************************************)
EXTENDS Integers, Sequences, FiniteSets, TLC

\* ---- bounds of the model ------------------------------------------------
\* content blocks the responder emits over one run's conversation
MaxBlocks == 3
\* requests to the generation API in one run
MaxRequests == 3
\* runs of a job (process invocations) in one behaviour
MaxRuns == 2
\* the current dates tried for get_date_range: FirstDay .. FirstDay + DaySpan,
\* as proleptic Gregorian ordinals (738874 is 20 December 2023)
FirstDay == 738874
DaySpan == 80

\* ---- values --------------------------------------------------------------
NoDoc == <<"None">>
NoResponse == [stop_reason |-> "none", content |-> <<>>]
NoWindow == <<>>
NoCreds == [exists |-> FALSE, token |-> 0, expired |-> FALSE, refresh_token |-> FALSE]

Jobs == {"daily", "weekly"}
StopReasons == {"end_turn", "tool_use", "max_tokens"}
Whitespace == {" ", "\n"}
\* the texts a text block may carry: empty, whitespace-only, non-blank
TextValues == {<<>>, <<" ">>, <<"a">>}

VARIABLES
  job,             \* which main() is running
  pc,              \* position of the run
  stageLog,        \* stages of this run, in the order they were entered
  error,           \* the exception that aborted the run, "none" otherwise
  credsFileExists, \* CREDS_PATH.exists()
  tokenFile,       \* content of TOKEN_PATH, NoCreds when the file is missing
  messages,        \* the conversation of generate_newsletter
  response,        \* the last responder turn received in this run
  requests,        \* client.messages.create calls made in this run
  result,          \* the text returned by the generation function
  creds,           \* the credential last returned by get_gmail_service
  writes,          \* writes to TOKEN_PATH, over all runs
  sends,           \* transport sends submitted in this run
  runs,            \* runs started
  today,           \* datetime.now(), as the ordinal of the date
  window,          \* the (start, end) strings returned by get_date_range
  toolUseTurns     \* "tool_use" turns received by generate_newsletter in this run

vars == <<job, pc, stageLog, error, credsFileExists, tokenFile,
          messages, response, requests, result, creds, writes, sends, runs,
          today, window, toolUseTurns>>

\* ---- Python string helpers ------------------------------------------------
RECURSIVE LStrip(_)
LStrip(s) ==
  IF s = <<>> THEN <<>>
  ELSE IF Head(s) \in Whitespace THEN LStrip(Tail(s)) ELSE s

RECURSIVE RStrip(_)
RStrip(s) ==
  IF s = <<>> THEN <<>>
  ELSE IF s[Len(s)] \in Whitespace THEN RStrip(SubSeq(s, 1, Len(s) - 1)) ELSE s

\* str.strip()
Strip(s) == RStrip(LStrip(s))

\* "\n\n".join(parts)
RECURSIVE Join(_, _)
Join(sep, parts) ==
  IF parts = <<>> THEN <<>>
  ELSE IF Len(parts) = 1 THEN parts[1]
  ELSE parts[1] \o sep \o Join(sep, Tail(parts))

\* ---- the responder (generation API) ---------------------------------------
TextBlock(t) == [type |-> "text", text |-> t]
ToolUseBlock(i) == [type |-> "tool_use", id |-> i]
BlockKinds == {TextBlock(t) : t \in TextValues} \cup {ToolUseBlock(0)}

IsToolUse(block) == block.type = "tool_use"
HasText(block) == block.type = "text"

RECURSIVE CountToolUse(_)
CountToolUse(content) ==
  IF content = <<>> THEN 0
  ELSE (IF IsToolUse(Head(content)) THEN 1 ELSE 0) + CountToolUse(Tail(content))

\* blocks and tool_use blocks the responder has emitted in the conversation
RECURSIVE BlocksIn(_)
BlocksIn(msgs) ==
  IF msgs = <<>> THEN 0
  ELSE (IF Head(msgs).role = "assistant" THEN Len(Head(msgs).content) ELSE 0)
       + BlocksIn(Tail(msgs))

RECURSIVE ToolUsesIn(_)
ToolUsesIn(msgs) ==
  IF msgs = <<>> THEN 0
  ELSE (IF Head(msgs).role = "assistant" THEN CountToolUse(Head(msgs).content) ELSE 0)
       + ToolUsesIn(Tail(msgs))

\* the service gives every tool_use block an id that is unique in the conversation
WithIds(kinds, base) ==
  [i \in 1..Len(kinds) |->
     IF IsToolUse(kinds[i])
     THEN ToolUseBlock(base + CountToolUse(SubSeq(kinds, 1, i)))
     ELSE kinds[i]]

\* the contents a responder turn may have when `room` blocks are left
Contents(room, base) ==
  UNION {{WithIds(k, base) : k \in [1..n -> BlockKinds]} : n \in 0..room}

\* ---- generate_newsletter ---------------------------------------------------
PromptTurn == [role |-> "user", content |-> "prompt"]

ToolResultBlock(i) == [type |-> "tool_result", tool_use_id |-> i, content |-> <<>>]

\* the acknowledgments collected in the reverse of the request order
RECURSIVE ToolResults_Reversed(_)
ToolResults_Reversed(content) ==
  IF content = <<>> THEN <<>>
  ELSE IF IsToolUse(Head(content))
       THEN ToolResults_Reversed(Tail(content)) \o <<ToolResultBlock(Head(content).id)>>
       ELSE ToolResults_Reversed(Tail(content))

\* the tool_results list built by the for loop
RECURSIVE ToolResults(_)
ToolResults(content) ==
  IF content = <<>> THEN <<>>
  ELSE IF IsToolUse(Head(content))
       THEN <<ToolResultBlock(Head(content).id)>> \o ToolResults(Tail(content))
       ELSE ToolResults(Tail(content))

\* the acknowledgments are built and the requester turn is not appended
AppendToolResults_Dropped(msgs, tool_results) == msgs

\* if tool_results: messages.append({"role": "user", "content": tool_results})
AppendToolResults(msgs, tool_results) ==
  IF tool_results # <<>>
  THEN Append(msgs, [role |-> "user", content |-> tool_results])
  ELSE msgs

\* block.text for block in response.content if hasattr(block, "text") and block.text
RECURSIVE TextParts(_)
TextParts(content) ==
  IF content = <<>> THEN <<>>
  ELSE IF HasText(Head(content)) /\ Head(content).text # <<>>
       THEN <<Head(content).text>> \o TextParts(Tail(content))
       ELSE TextParts(Tail(content))

\* the text parts joined with no separator
newsletter_text_NoSeparator(content) == Join(<<>>, TextParts(content))

newsletter_text(content) == Join(<<"\n", "\n">>, TextParts(content))

\* the emptiness test without strip()
IsBlank_NoStrip(text) == text = <<>>

\* not text.strip()
IsBlank(text) == Strip(text) = <<>>

\* every stop reason but "end_turn" sends the loop round again
Continues_AllButEndTurn(stop_reason) == stop_reason # "end_turn"

\* the loop gives up after two rounds of tool use
Continues_Capped(stop_reason) == stop_reason = "tool_use" /\ requests < 2

\* if response.stop_reason == "tool_use": ... continue
Continues(stop_reason) == stop_reason = "tool_use"

\* ---- generate_coaching_email ------------------------------------------------
\* response.content[0].text: IndexError on an empty content list
FirstBlockText(content) == content[1].text

\* ---- get_date_range ----------------------------------------------------------
\* datetime: the lengths and names of the months
DaysInMonth == <<31, 28, 31, 30, 31, 30, 31, 31, 30, 31, 30, 31>>
MonthNames == <<"January", "February", "March", "April", "May", "June", "July",
                "August", "September", "October", "November", "December">>

\* datetime: days of a non-leap year that precede the first day of `month`
RECURSIVE DaysBeforeMonth(_)
DaysBeforeMonth(month) ==
  IF month <= 1 THEN 0 ELSE DaysBeforeMonth(month - 1) + DaysInMonth[month - 1]

\* datetime: the (year, month, day) of a proleptic Gregorian ordinal
Ord2Ymd(ordinal) ==
  LET n0 == ordinal - 1
      n400 == n0 \div 146097
      r400 == n0 % 146097
      n100 == r400 \div 36524
      r100 == r400 % 36524
      n4 == r100 \div 1461
      r4 == r100 % 1461
      n1 == r4 \div 365
      n == r4 % 365
      year == n400 * 400 + 1 + n100 * 100 + n4 * 4 + n1
  IN IF n1 = 4 \/ n100 = 4
     THEN [year |-> year - 1, month |-> 12, day |-> 31]
     ELSE LET leapyear == n1 = 3 /\ (n4 # 24 \/ n100 = 3)
              m0 == (n + 50) \div 32
              pre0 == DaysBeforeMonth(m0) + (IF m0 > 2 /\ leapyear THEN 1 ELSE 0)
              back == pre0 > n
              month == IF back THEN m0 - 1 ELSE m0
              preceding ==
                IF back
                THEN pre0 - (DaysInMonth[month]
                             + (IF month = 2 /\ leapyear THEN 1 ELSE 0))
                ELSE pre0
          IN [year |-> year, month |-> month, day |-> n - preceding + 1]

\* strftime("%B %d, %Y"): month name, day of the month, year
Strftime(ordinal) ==
  LET ymd == Ord2Ymd(ordinal)
  IN [B |-> MonthNames[ymd.month], d |-> ymd.day, Y |-> ymd.year]

\* datetime.weekday(): Monday = 0, Sunday = 6
Weekday(ordinal) == (ordinal + 6) % 7

\* the days subtracted when the current week's Monday is taken
DaysBack_ThisWeek(weekday) == weekday

\* days_back = today.weekday() + 7
DaysBack(weekday) == weekday + 7

get_date_range(now) ==
  LET days_back == DaysBack(Weekday(now))
      last_monday == now - days_back
      last_sunday == last_monday + 6
  IN <<Strftime(last_monday), Strftime(last_sunday)>>

\* ---- main --------------------------------------------------------------------
\* main() with the credential acquired before the content is generated
MainOrder_AcquireFirst(j) ==
  IF j = "daily" THEN <<"goals", "acquire", "generate", "send">>
  ELSE <<"acquire", "generate", "send">>

\* the calls of main(), in order
MainOrder(j) ==
  IF j = "daily" THEN <<"goals", "generate", "acquire", "send">>
  ELSE <<"generate", "acquire", "send">>

RECURSIVE IndexOf(_, _)
IndexOf(seq, x) ==
  IF seq = <<>> THEN 1
  ELSE IF Head(seq) = x THEN 1 ELSE 1 + IndexOf(Tail(seq), x)

\* the stage main() enters when `stage` has returned
Successor(j, stage) ==
  LET order == MainOrder(j)
      i == IndexOf(order, stage)
  IN IF i < Len(order) THEN order[i + 1] ELSE "complete"

\* control passes to the next call of main()
Enter(next) ==
  /\ pc' = next
  /\ stageLog' = IF next = "complete" THEN stageLog ELSE Append(stageLog, next)

\* an exception propagates out of main()
Abort(e) ==
  /\ pc' = "aborted"
  /\ error' = e
  /\ stageLog' = stageLog

\* ---- get_gmail_service ----------------------------------------------------------
\* creds.valid: an access token is present and it has not expired
Valid(c) == c.token # 0 /\ ~c.expired

\* the branch taken whatever the persisted credential
NeedsAuth_Always(c) == TRUE

\* the branch taken only when no credential was read
NeedsAuth_OnlyMissing(c) == ~c.exists

\* if not creds or not creds.valid
NeedsAuth(c) == ~c.exists \/ ~Valid(c)

\* the refresh attempted without looking at creds.expired
CanRefresh_IgnoresExpired(c) == c.exists /\ c.refresh_token

\* if creds and creds.expired and creds.refresh_token
CanRefresh(c) == c.exists /\ c.expired /\ c.refresh_token

\* creds.refresh(Request()): a new access token, not expired
Refreshed(c) == [c EXCEPT !.token = c.token + 1, !.expired = FALSE]

\* flow.run_local_server(port=0): a newly issued credential
FlowCreds(c) ==
  [exists |-> TRUE, token |-> c.token + 1, expired |-> FALSE, refresh_token |-> TRUE]

\* ---- send_email -------------------------------------------------------------------
\* a failed send is submitted again
SendErrorTarget_Retry == "send"

\* except HttpError as e: log.error(...); raise
SendErrorTarget == "aborted"

Init ==
  /\ job = "weekly"
  /\ pc = "idle"
  /\ stageLog = <<>>
  /\ error = "none"
  /\ credsFileExists \in BOOLEAN
  /\ tokenFile \in {NoCreds} \cup
       [exists : {TRUE}, token : {0, 1}, expired : BOOLEAN, refresh_token : BOOLEAN]
  /\ messages = <<>>
  /\ response = NoResponse
  /\ requests = 0
  /\ result = NoDoc
  /\ creds = NoCreds
  /\ writes = 0
  /\ sends = 0
  /\ runs = 0
  /\ today = FirstDay
  /\ window = NoWindow
  /\ toolUseTurns = 0

\* the scheduler starts a job: main() up to its first call
StartRun ==
  /\ pc \in {"idle", "complete", "aborted"}
  /\ runs < MaxRuns
  /\ \E j \in Jobs :
       /\ job' = j
       /\ pc' = MainOrder(j)[1]
       /\ stageLog' = <<MainOrder(j)[1]>>
       /\ window' = IF j = "weekly" THEN get_date_range(today) ELSE NoWindow
  /\ runs' = runs + 1
  /\ error' = "none"
  /\ messages' = <<>>
  /\ response' = NoResponse
  /\ requests' = 0
  /\ result' = NoDoc
  /\ sends' = 0
  /\ toolUseTurns' = 0
  /\ UNCHANGED <<credsFileExists, tokenFile, creds, writes, today>>

\* load_goals(): GOALS_PATH exists and is read
LoadGoals ==
  /\ pc = "goals"
  /\ Enter(Successor(job, "goals"))
  /\ UNCHANGED <<today, window, toolUseTurns, job, error, credsFileExists, tokenFile, messages, response,
                 requests, result, creds, writes, sends, runs>>

\* load_goals(): GOALS_PATH does not exist
LoadGoalsMissing ==
  /\ pc = "goals"
  /\ Abort("FileNotFoundError")
  /\ UNCHANGED <<today, window, toolUseTurns, job, credsFileExists, tokenFile, messages, response,
                 requests, result, creds, writes, sends, runs>>

\* generate_newsletter: client.messages.create(...) returns a turn, which is
\* appended to the conversation
CreateMessage ==
  /\ pc = "generate"
  /\ job = "weekly"
  /\ requests < MaxRequests
  /\ LET msgs == IF requests = 0 THEN <<PromptTurn>> ELSE messages
     IN \E sr \in StopReasons :
        \E content \in Contents(MaxBlocks - BlocksIn(msgs), ToolUsesIn(msgs)) :
          /\ response' = [stop_reason |-> sr, content |-> content]
          /\ messages' = Append(msgs, [role |-> "assistant", content |-> content])
          /\ toolUseTurns' = IF sr = "tool_use" THEN toolUseTurns + 1 ELSE toolUseTurns
  /\ requests' = requests + 1
  /\ pc' = "responded"
  /\ UNCHANGED <<today, window, job, stageLog, error, credsFileExists, tokenFile,
                 result, creds, writes, sends, runs>>

\* client.messages.create(...) raises (the service rejects the request)
CreateMessageError ==
  /\ pc = "generate"
  /\ requests < MaxRequests
  /\ requests' = requests + 1
  /\ Abort("APIError")
  /\ messages' = <<>>
  /\ UNCHANGED <<today, window, toolUseTurns, job, credsFileExists, tokenFile, response,
                 result, creds, writes, sends, runs>>

\* generate_newsletter: the branch on response.stop_reason, and on leaving the
\* loop the extraction of the text
HandleStopReason ==
  /\ pc = "responded"
  /\ IF Continues(response.stop_reason)
     THEN /\ messages' = AppendToolResults(messages, ToolResults(response.content))
          /\ pc' = "generate"
          /\ UNCHANGED <<stageLog, error, result>>
     ELSE /\ messages' = <<>>
          /\ IF IsBlank(newsletter_text(response.content))
             THEN Abort("ValueError") /\ result' = result
             ELSE /\ result' = newsletter_text(response.content)
                  /\ Enter(Successor(job, "generate"))
                  /\ error' = error
  /\ UNCHANGED <<today, window, toolUseTurns, job, credsFileExists, tokenFile, response, requests,
                 creds, writes, sends, runs>>

\* generate_coaching_email: one request, the text of the first block
GenerateCoaching ==
  /\ pc = "generate"
  /\ job = "daily"
  /\ requests < MaxRequests
  /\ requests' = requests + 1
  /\ \E content \in Contents(MaxBlocks, 0) :
       /\ \A i \in 1..Len(content) : HasText(content[i])
       /\ response' = [stop_reason |-> "end_turn", content |-> content]
       /\ IF content = <<>>
          THEN Abort("IndexError") /\ result' = result
          ELSE IF IsBlank(FirstBlockText(content))
               THEN Abort("ValueError") /\ result' = result
               ELSE /\ result' = FirstBlockText(content)
                    /\ Enter(Successor(job, "generate"))
                    /\ error' = error
  /\ UNCHANGED <<today, window, toolUseTurns, job, credsFileExists, tokenFile, messages,
                 creds, writes, sends, runs>>

\* get_gmail_service: the persisted credential is valid and is returned as read
GetGmailServiceValid ==
  /\ pc = "acquire"
  /\ ~NeedsAuth(tokenFile)
  /\ creds' = tokenFile
  /\ Enter(Successor(job, "acquire"))
  /\ UNCHANGED <<today, window, toolUseTurns, job, error, credsFileExists, tokenFile, messages,
                 response, requests, result, writes, sends, runs>>

\* get_gmail_service: the refresh succeeds, the credential is written and returned
GetGmailServiceRefresh ==
  /\ pc = "acquire"
  /\ NeedsAuth(tokenFile)
  /\ CanRefresh(tokenFile)
  /\ creds' = Refreshed(tokenFile)
  /\ tokenFile' = Refreshed(tokenFile)
  /\ writes' = writes + 1
  /\ Enter(Successor(job, "acquire"))
  /\ UNCHANGED <<today, window, toolUseTurns, job, error, credsFileExists, messages,
                 response, requests, result, sends, runs>>

\* get_gmail_service: creds.refresh(Request()) raises
GetGmailServiceRefreshError ==
  /\ pc = "acquire"
  /\ NeedsAuth(tokenFile)
  /\ CanRefresh(tokenFile)
  /\ Abort("RefreshError")
  /\ UNCHANGED <<today, window, toolUseTurns, job, credsFileExists, tokenFile, messages, response,
                 requests, result, creds, writes, sends, runs>>

\* get_gmail_service: the interactive flow issues a credential, which is written
\* and returned
GetGmailServiceFlow ==
  /\ pc = "acquire"
  /\ NeedsAuth(tokenFile)
  /\ ~CanRefresh(tokenFile)
  /\ credsFileExists
  /\ creds' = FlowCreds(tokenFile)
  /\ tokenFile' = FlowCreds(tokenFile)
  /\ writes' = writes + 1
  /\ Enter(Successor(job, "acquire"))
  /\ UNCHANGED <<today, window, toolUseTurns, job, error, credsFileExists, messages,
                 response, requests, result, sends, runs>>

\* get_gmail_service: flow.run_local_server raises (consent declined, no network)
GetGmailServiceFlowError ==
  /\ pc = "acquire"
  /\ NeedsAuth(tokenFile)
  /\ ~CanRefresh(tokenFile)
  /\ credsFileExists
  /\ Abort("FlowError")
  /\ UNCHANGED <<today, window, toolUseTurns, job, credsFileExists, tokenFile, messages, response,
                 requests, result, creds, writes, sends, runs>>

\* get_gmail_service: the client configuration file is missing
GetGmailServiceNoClientSecret ==
  /\ pc = "acquire"
  /\ NeedsAuth(tokenFile)
  /\ ~CanRefresh(tokenFile)
  /\ ~credsFileExists
  /\ Abort("FileNotFoundError")
  /\ UNCHANGED <<today, window, toolUseTurns, job, credsFileExists, tokenFile, messages, response,
                 requests, result, creds, writes, sends, runs>>

\* send_email: the message is rendered and the transport accepts it
SendEmail ==
  /\ pc = "send"
  /\ sends' = sends + 1
  /\ pc' = Successor(job, "send")
  /\ stageLog' = stageLog \o <<"render", "dispatch">>
  /\ UNCHANGED <<today, window, toolUseTurns, job, error, credsFileExists, tokenFile, messages,
                 response, requests, result, creds, writes, runs>>

\* send_email: the message is rendered and the transport raises HttpError
SendEmailError ==
  /\ pc = "send"
  /\ sends' = sends + 1
  /\ pc' = SendErrorTarget
  /\ error' = "HttpError"
  /\ stageLog' = stageLog \o <<"render", "dispatch">>
  /\ UNCHANGED <<today, window, toolUseTurns, job, credsFileExists, tokenFile, messages,
                 response, requests, result, creds, writes, runs>>

\* between two runs the access token of the persisted credential expires
TokenExpires ==
  /\ pc \in {"complete", "aborted"}
  /\ tokenFile.exists
  /\ ~tokenFile.expired
  /\ tokenFile' = [tokenFile EXCEPT !.expired = TRUE]
  /\ UNCHANGED <<today, window, toolUseTurns, job, pc, stageLog, error, credsFileExists, messages,
                 response, requests, result, creds, writes, sends, runs>>

Next ==
  \/ StartRun
  \/ LoadGoals
  \/ LoadGoalsMissing
  \/ CreateMessage
  \/ CreateMessageError
  \/ HandleStopReason
  \/ GenerateCoaching
  \/ GetGmailServiceValid
  \/ GetGmailServiceRefresh
  \/ GetGmailServiceRefreshError
  \/ GetGmailServiceFlow
  \/ GetGmailServiceFlowError
  \/ GetGmailServiceNoClientSecret
  \/ SendEmail
  \/ SendEmailError
  \/ TokenExpires

Spec == Init /\ [][Next]_vars

\* ---- get_date_range on its own, over a range of current dates ------------------
DateInit ==
  /\ job = "weekly"
  /\ pc = "idle"
  /\ stageLog = <<>>
  /\ error = "none"
  /\ credsFileExists = TRUE
  /\ tokenFile = NoCreds
  /\ messages = <<>>
  /\ response = NoResponse
  /\ requests = 0
  /\ result = NoDoc
  /\ creds = NoCreds
  /\ writes = 0
  /\ sends = 0
  /\ runs = 0
  /\ today \in FirstDay..(FirstDay + DaySpan)
  /\ window = NoWindow
  /\ toolUseTurns = 0

\* get_date_range() is called on the current date
GetDateRange ==
  /\ window = NoWindow
  /\ window' = get_date_range(today)
  /\ UNCHANGED <<today, toolUseTurns, job, pc, stageLog, error, credsFileExists,
                 tokenFile, messages, response, requests, result, creds, writes,
                 sends, runs>>

SpecDate == DateInit /\ [][GetDateRange]_vars

\* ---- vocabulary of the properties ------------------------------------------
\* the run is inside generate_newsletter, holding a responder turn it has not
\* yet branched on
AtResponse == pc = "responded" /\ job = "weekly"

\* the tool-invocation-request blocks of a turn, in block order
Requested(content) == SelectSeq(content, IsToolUse)

\* `turn` is a requester turn that answers the requests `reqs`, one result per
\* request and in the same order
AnswersInOrder(turn, reqs) ==
  /\ turn.role = "user"
  /\ Len(turn.content) = Len(reqs)
  /\ \A i \in 1..Len(reqs) :
       /\ turn.content[i].type = "tool_result"
       /\ turn.content[i].tool_use_id = reqs[i].id

\* the texts of the text blocks of a turn, one after the other
RECURSIVE ConcatTexts(_)
ConcatTexts(content) ==
  IF content = <<>> THEN <<>>
  ELSE (IF Head(content).type = "text" THEN Head(content).text ELSE <<>>)
       \o ConcatTexts(Tail(content))

\* the non-empty texts of the text blocks of a turn, a blank line between them
RECURSIVE JoinedTexts(_)
JoinedTexts(content) ==
  IF content = <<>> THEN <<>>
  ELSE LET h == Head(content)
           rest == JoinedTexts(Tail(content))
       IN IF h.type # "text" \/ h.text = <<>> THEN rest
          ELSE IF rest = <<>> THEN h.text
          ELSE h.text \o <<"\n", "\n">> \o rest

AllWhitespace(text) == \A k \in 1..Len(text) : text[k] \in Whitespace

\* every text block of the turn is empty or whitespace-only (also: no text block)
EveryTextBlank(content) ==
  \A i \in 1..Len(content) :
    content[i].type = "text" => AllWhitespace(content[i].text)

InLog(stage) == \E i \in 1..Len(stageLog) : stageLog[i] = stage

Before(a, b) ==
  \A i, k \in 1..Len(stageLog) : stageLog[i] = a /\ stageLog[k] = b => i < k

\* the stage in which the run aborted
AbortedIn(stage) == pc = "aborted" /\ stageLog[Len(stageLog)] = stage

\* ---- C1 ----------------------------------------------------------------------
\* C1 as stated: on a "tool_use" turn with N request blocks, N >= 0, the loop
\* appends exactly one requester turn with N results in request order, and only
\* then makes the next request.
C1_Original ==
  [][ (AtResponse /\ response.stop_reason = "tool_use") =>
        /\ Len(messages') = Len(messages) + 1
        /\ AnswersInOrder(messages'[Len(messages')], Requested(response.content))
        /\ requests' = requests
        /\ pc' = "generate" ]_vars

\* C1 amended: on a "tool_use" turn with N >= 1 request blocks the loop appends
\* exactly one requester turn with N results in request order; with N = 0 it
\* appends no turn; in both cases before the next request.
C1_ToolResultsTurn ==
  [][ (AtResponse /\ response.stop_reason = "tool_use") =>
        /\ IF Requested(response.content) # <<>>
           THEN /\ Len(messages') = Len(messages) + 1
                /\ SubSeq(messages', 1, Len(messages)) = messages
                /\ AnswersInOrder(messages'[Len(messages')],
                                  Requested(response.content))
           ELSE messages' = messages
        /\ requests' = requests
        /\ pc' = "generate" ]_vars

\* a "tool_use" turn with two requests has been answered by one requester turn
C1_Witness ==
  /\ pc = "generate"
  /\ job = "weekly"
  /\ requests = 1
  /\ Len(Requested(response.content)) = 2
  /\ Len(messages) = 3
  /\ messages[3].role = "user"
  /\ Len(messages[3].content) = 2

\* ---- C2 ----------------------------------------------------------------------
\* C2 as stated: the loop stops at the first "end_turn" turn, no request follows
\* it, and the returned document is the concatenation of that turn's text blocks.
C2_Original ==
  [][ /\ (AtResponse /\ response.stop_reason = "end_turn") =>
           /\ pc' \notin {"generate", "responded"}
           /\ requests' = requests
           /\ (pc' # "aborted" => result' = ConcatTexts(response.content))
      /\ (job = "weekly" /\ response.stop_reason = "end_turn" /\ runs' = runs) =>
           requests' = requests ]_vars

\* C2 amended: the loop stops at the first "end_turn" turn, no request follows
\* it, and the returned document is the non-empty text blocks of that turn, in
\* block order, joined by a blank line.
C2_EndTurnDocument ==
  [][ /\ (AtResponse /\ response.stop_reason = "end_turn") =>
           /\ pc' \notin {"generate", "responded"}
           /\ requests' = requests
           /\ (pc' # "aborted" => result' = JoinedTexts(response.content))
      /\ (job = "weekly" /\ response.stop_reason = "end_turn" /\ runs' = runs) =>
           requests' = requests ]_vars

\* an "end_turn" turn with two non-empty text blocks has been returned
C2_Witness ==
  /\ job = "weekly"
  /\ pc = "acquire"
  /\ response.stop_reason = "end_turn"
  /\ Len(TextParts(response.content)) = 2
  /\ result = <<"a", "\n", "\n", "a">>

\* ---- C3 ----------------------------------------------------------------------
\* C3 as stated: with a persisted credential that is expired and carries a
\* refresh token, a successful refresh is persisted and returned, and a failed
\* refresh never aborts the call.
C3_RefreshFallsThrough ==
  [][ (pc = "acquire" /\ tokenFile.exists /\ tokenFile.expired
         /\ tokenFile.refresh_token) =>
        /\ error' # "RefreshError"
        /\ (pc' # "aborted" =>
              /\ creds' = tokenFile'
              /\ ~creds'.expired
              /\ writes' = writes + 1) ]_vars

\* ---- C4 ----------------------------------------------------------------------
\* C4: with a valid persisted credential, get_gmail_service returns it unchanged
\* and writes nothing; a second call in that state returns the same credential,
\* again with no write.
C4_ValidUnchanged ==
  [][ (pc = "acquire" /\ tokenFile.exists /\ tokenFile.token # 0
         /\ ~tokenFile.expired) =>
        /\ pc' # "aborted"
        /\ creds' = tokenFile
        /\ tokenFile' = tokenFile
        /\ writes' = writes
        /\ (creds = tokenFile => creds' = creds) ]_vars

\* a first call has returned the valid persisted credential without a write, and
\* the second run is about to call get_gmail_service in that state
C4_Witness ==
  /\ runs = 2
  /\ pc = "acquire"
  /\ tokenFile.exists
  /\ tokenFile.token # 0
  /\ ~tokenFile.expired
  /\ creds = tokenFile
  /\ writes = 0

C6_Original ==
  [][ (AtResponse /\ response.stop_reason \notin {"end_turn", "tool_use"}) =>
        /\ pc' \notin {"generate", "responded"}
        /\ requests' = requests
        /\ IF pc' = "aborted"
           THEN error' = "ValueError" /\ AllWhitespace(ConcatTexts(response.content))
           ELSE result' = ConcatTexts(response.content) ]_vars

\* C6 amended: the same, the result being the non-empty text blocks of the turn
\* joined by a blank line.
C6_OtherStopReason ==
  [][ (AtResponse /\ response.stop_reason \notin {"end_turn", "tool_use"}) =>
        /\ pc' \notin {"generate", "responded"}
        /\ requests' = requests
        /\ IF pc' = "aborted"
           THEN error' = "ValueError" /\ AllWhitespace(JoinedTexts(response.content))
           ELSE result' = JoinedTexts(response.content) ]_vars

\* the first turn carried an unrecognised stop reason and its text was returned
C6_Witness ==
  /\ job = "weekly"
  /\ pc = "acquire"
  /\ requests = 1
  /\ response.stop_reason = "max_tokens"
  /\ result = <<"a", "\n", "\n", " ">>

\* ---- C7 ----------------------------------------------------------------------
\* C7: generate_newsletter fails (and the run sends nothing) exactly when every
\* text block of the final turn is empty or whitespace-only, no text block
\* included; otherwise it returns a document.
C7_FailsIffBlank ==
  (job = "weekly" /\ pc # "responded" /\ response # NoResponse
     /\ response.stop_reason # "tool_use") =>
    /\ EveryTextBlank(response.content) <=> (AbortedIn("generate") /\ error = "ValueError")
    /\ EveryTextBlank(response.content) => (result = NoDoc /\ sends = 0)
    /\ ~EveryTextBlank(response.content) => (result # NoDoc /\ ~AbortedIn("generate"))

\* the final turn held two whitespace-only text blocks and the call failed
C7_Witness ==
  /\ job = "weekly"
  /\ AbortedIn("generate")
  /\ error = "ValueError"
  /\ response.stop_reason = "end_turn"
  /\ response.content = <<TextBlock(<<" ">>), TextBlock(<<" ">>)>>

\* ---- C8 ----------------------------------------------------------------------
\* C8 as stated: the stages of a run occur in the order credential acquisition,
\* content generation, rendering, dispatch; no generation request is made before
\* the credential has been acquired.
C8_Original ==
  /\ Before("acquire", "generate")
  /\ Before("generate", "render")
  /\ Before("render", "dispatch")
  /\ requests > 0 => (InLog("acquire") /\ pc # "acquire")

\* C8 amended: the stages of a run occur in the order content generation,
\* credential acquisition, rendering, dispatch; the credential is not acquired
\* before the generation call has returned a document.
C8_StageOrder ==
  /\ Before("generate", "acquire")
  /\ Before("acquire", "render")
  /\ Before("render", "dispatch")
  /\ InLog("dispatch") => InLog("render")
  /\ InLog("render") => InLog("acquire")
  /\ InLog("acquire") => (InLog("generate") /\ requests > 0 /\ result # NoDoc)

\* a run has gone through all four stages
C8_Witness ==
  /\ pc = "complete"
  /\ InLog("generate")
  /\ InLog("acquire")
  /\ InLog("render")
  /\ InLog("dispatch")

\* ---- C9 ----------------------------------------------------------------------
\* C9: a run submits the transport send exactly once if it completes and not at
\* all if it aborts in goals loading, generation or credential acquisition; a
\* failed send aborts the run and is not submitted again.
C9_SendAtMostOnce ==
  /\ sends <= 1
  /\ pc = "complete" => sends = 1
  /\ (AbortedIn("goals") \/ AbortedIn("generate") \/ AbortedIn("acquire")) => sends = 0
  /\ pc \in {"goals", "generate", "responded", "acquire", "send"} => sends = 0
  /\ error = "HttpError" => (pc = "aborted" /\ sends = 1)

\* a send has failed: it was submitted once and the run has aborted
C9_Witness ==
  /\ pc = "aborted"
  /\ error = "HttpError"
  /\ sends = 1

\* ---- C10 ---------------------------------------------------------------------
\* C10 as stated: generate_coaching_email returns the concatenation of all text
\* blocks of the responder turn and fails exactly when that concatenation is
\* blank, for a turn of zero, one or several blocks.
C10_ConcatAllBlocks ==
  (job = "daily" /\ response # NoResponse) =>
    /\ AbortedIn("generate") <=> AllWhitespace(ConcatTexts(response.content))
    /\ result # NoDoc => result = ConcatTexts(response.content)

\* ---- C11 ---------------------------------------------------------------------
\* C11 as stated: a run started with the client configuration file missing
\* aborts at startup, before any generation request and before any send,
\* whatever the persisted credential.
C11_Original ==
  (~credsFileExists /\ pc # "idle") =>
    /\ requests = 0
    /\ sends = 0
    /\ pc # "complete"

\* the persisted credential can be used without the interactive flow: it is
\* valid, or it is expired and carries a refresh token
UsableWithoutFlow(c) ==
  /\ c.exists
  /\ \/ c.token # 0 /\ ~c.expired
     \/ c.expired /\ c.refresh_token

\* C11 amended: with the client configuration file missing, get_gmail_service
\* aborts the run with a configuration error exactly when the persisted
\* credential is missing or is neither valid nor refreshable; that happens after
\* generation, before any send and any write of the credential, and nothing is
\* retried after the abort.
C11_MissingClientSecret ==
  [][ /\ (pc = "acquire" /\ ~credsFileExists) =>
           IF UsableWithoutFlow(tokenFile)
           THEN error' # "FileNotFoundError"
           ELSE /\ pc' = "aborted"
                /\ error' = "FileNotFoundError"
                /\ requests' = requests
                /\ requests > 0
                /\ sends' = 0
                /\ writes' = writes
                /\ tokenFile' = tokenFile
      /\ (pc = "aborted" /\ runs' = runs) =>
           /\ pc' = "aborted"
           /\ requests' = requests
           /\ sends' = sends
           /\ writes' = writes ]_vars

\* the run has generated a document and then aborted in get_gmail_service on the
\* missing client configuration file
C11_Witness ==
  /\ ~credsFileExists
  /\ AbortedIn("acquire")
  /\ error = "FileNotFoundError"
  /\ requests > 0
  /\ result # NoDoc
  /\ sends = 0
  /\ writes = 0

\* ---- C12 ---------------------------------------------------------------------
\* the calendar read back from a formatted date: its ordinal, counted from the
\* years, months and days that precede it
LeapYear(y) == y % 4 = 0 /\ (y % 100 # 0 \/ y % 400 = 0)

MonthLength(y, m) ==
  IF m = 2 THEN (IF LeapYear(y) THEN 29 ELSE 28)
  ELSE IF m \in {4, 6, 9, 11} THEN 30 ELSE 31

RECURSIVE DaysInMonthsBefore(_, _)
DaysInMonthsBefore(y, m) ==
  IF m = 1 THEN 0 ELSE DaysInMonthsBefore(y, m - 1) + MonthLength(y, m - 1)

DateOf(formatted) ==
  LET y == formatted.Y
      m == CHOOSE k \in 1..12 : MonthNames[k] = formatted.B
  IN (y - 1) * 365 + ((y - 1) \div 4) - ((y - 1) \div 100) + ((y - 1) \div 400)
     + DaysInMonthsBefore(y, m) + formatted.d

\* ordinal 1 (1 January of year 1) is a Monday
IsMonday(ordinal) == ordinal % 7 = 1
IsSunday(ordinal) == ordinal % 7 = 0

\* C12: for every current date, get_date_range returns a window that starts on
\* a Monday, ends on the Sunday six days later and ends strictly before the
\* current date, no more than seven days before it (the most recent complete
\* Monday-to-Sunday week); on a Monday it is the seven days before the current
\* date.
C12_PreviousWeek ==
  window # NoWindow =>
    LET start == DateOf(window[1])
        end == DateOf(window[2])
    IN /\ IsMonday(start)
       /\ IsSunday(end)
       /\ end = start + 6
       /\ end < today
       /\ today - end <= 7
       /\ IsMonday(today) => (start = today - 7 /\ end = today - 1)

\* get_date_range was called on Monday 1 January 2024 and returned the week of
\* 25 to 31 December 2023
C12_Witness ==
  /\ IsMonday(today)
  /\ window = << [B |-> "December", d |-> 25, Y |-> 2023],
                 [B |-> "December", d |-> 31, Y |-> 2023] >>

\* ---- C13 ---------------------------------------------------------------------
\* the conversation of the request just made (the turns before the responder
\* turn it returned), or of the request the loop is about to make
Submitted ==
  IF pc = "responded" THEN SubSeq(messages, 1, Len(messages) - 1) ELSE messages

\* the requester turn `turn` holds a result for the request `block`, with the
\* empty placeholder content
Answers(turn, block) ==
  /\ turn.role = "user"
  /\ \E m \in 1..Len(turn.content) :
       /\ turn.content[m].type = "tool_result"
       /\ turn.content[m].tool_use_id = block.id
       /\ turn.content[m].content = <<>>

WellFormed(conversation) ==
  /\ Len(conversation) >= 1
  /\ conversation[1] = [role |-> "user", content |-> "prompt"]
  /\ \A i \in 2..Len(conversation) :
       conversation[i].role = "assistant" =>
         \A k \in 1..Len(conversation[i].content) :
           conversation[i].content[k].type = "tool_use" =>
             /\ i < Len(conversation)
             /\ Answers(conversation[i + 1], conversation[i].content[k])

\* C13: every conversation generate_newsletter submits starts with the prompt as
\* a requester turn and answers every tool-invocation-request of a responder
\* turn in the next requester turn, by a result with the same id and empty
\* content; no request is made while a tool-invocation-request is unanswered.
C13_SubmittedWellFormed ==
  (job = "weekly" /\ pc \in {"generate", "responded"} /\ requests > 0) =>
    WellFormed(Submitted)

\* a third request has been made, on a conversation in which two earlier
\* responder turns asked for tools
C13_Witness ==
  /\ job = "weekly"
  /\ pc = "responded"
  /\ requests = 3
  /\ Len(messages) = 6
  /\ CountToolUse(messages[2].content) = 2
  /\ CountToolUse(messages[4].content) = 1

\* ---- C14 ---------------------------------------------------------------------
\* C14: the loop of generate_newsletter has no iteration cap of its own. On a
\* "tool_use" turn it always goes on to another request, however many it has
\* made; it is left only on a turn with another stop reason, and then it has
\* made exactly k + 1 requests, k being the number of "tool_use" turns received
\* (or it is left by an exception of the API call).
C14_NoIterationCap ==
  [][ /\ (AtResponse /\ response.stop_reason = "tool_use") =>
           /\ pc' = "generate"
           /\ requests' = requests
           /\ toolUseTurns' = toolUseTurns
           /\ requests = toolUseTurns
      /\ (AtResponse /\ response.stop_reason # "tool_use") =>
           /\ pc' \notin {"generate", "responded"}
           /\ requests' = toolUseTurns' + 1
           /\ requests' = requests
      /\ (job = "weekly" /\ pc = "generate" /\ pc' \notin {"generate", "responded"}) =>
           error' = "APIError" ]_vars

\* the loop has ended on the turn that followed two "tool_use" turns, after
\* three requests
C14_Witness ==
  /\ job = "weekly"
  /\ pc = "acquire"
  /\ toolUseTurns = 2
  /\ requests = 3
  /\ response.stop_reason = "end_turn"
====
